---- MODULE Spec2Model ----
(***************************************************************************)
(* Model of the crawl engine of backend/crawler.py (class WebCrawler) and  *)
(* of backend/utils.py (normalize_url).                                     *)
(*                                                                         *)
(* A URL of the crawled host is the record [segs, trail]: the non-empty    *)
(* path segments and the number of '/' characters that end the path.       *)
(*   "http://h"            [segs |-> <<>>,            trail |-> 0]          *)
(*   "http://h/"           [segs |-> <<>>,            trail |-> 1]          *)
(*   "http://h/blog/a"     [segs |-> <<"blog","a">>,  trail |-> 0]          *)
(*   "http://h/blog/a///"  [segs |-> <<"blog","a">>,  trail |-> 3]          *)
(* Query and fragment are dropped by normalize_url before a URL reaches    *)
(* any state of the crawl, and every extracted URL passed is_same_domain,  *)
(* so scheme and host are the same for all URLs of the model.              *)
(***************************************************************************)
EXTENDS Integers, Sequences, FiniteSets, TLC

VARIABLES
    pc,                 \* position inside crawl()
    max_depth,          \* WebCrawler.max_depth
    max_pages,          \* WebCrawler.max_pages
    robots_parser,      \* WebCrawler.robots_parser
    homepage_signature, \* WebCrawler.homepage_signature
    visited_urls,       \* WebCrawler.visited_urls
    pages,              \* WebCrawler.pages
    section_counts,     \* WebCrawler.section_counts
    defer_counts,       \* WebCrawler.defer_counts
    nav_queues,         \* local nav_queues of crawl()
    other_queues,       \* local other_queues of crawl()
    queued_urls,        \* local queued_urls of crawl()
    depth,              \* loop variable of crawl()
    sitemap,            \* outcome of _parse_sitemap(): whether a sitemap was read, and sitemap_urls
    hops,               \* history: per URL that was enqueued, its number of link hops from a seed
    listed,             \* history: per URL waiting in an other queue, the pages that listed it as nav / as other link
    overtook,           \* history: pairs <<o, n>>: o left the other queue while n, a nav link of a page that listed o as other link, waited
    flagged,            \* history: the URLs whose extracted record was flagged soft-404
    fetch_log,          \* history: the fetches of self.base_url: the phase of crawl(), and whether the answer was a 200
    call,               \* a call of a function on its own: the function's name and its argument
    ret,                \* the value that call returned, once it returned
    runs                \* the number of crawl() calls made on this WebCrawler

vars == <<pc, max_depth, max_pages, robots_parser, homepage_signature,
          visited_urls, pages, section_counts, defer_counts, nav_queues,
          other_queues, queued_urls, depth, sitemap, hops, listed, overtook, flagged, fetch_log,
          call, ret, runs>>

\* the state of a WebCrawler and of its crawl()
crawler_vars == <<pc, max_depth, max_pages, robots_parser, homepage_signature,
                  visited_urls, pages, section_counts, defer_counts, nav_queues,
                  other_queues, queued_urls, depth, sitemap, hops, listed, overtook,
                  flagged, fetch_log, runs>>

(***************************************************************************)
(* Bounds of the model.                                                    *)
(***************************************************************************)
MaxPagesBound == 3
MaxDepthBound == 1
MaxLinks == 2
MaxSitemap == 2
MaxTrail == 3
MaxList == 3
MaxRuns == 2

(***************************************************************************)
(* Program constants.                                                      *)
(***************************************************************************)
MAX_DEFERS == 3
OtherCap == 30
ExtrasCap == 20
HostLen == Len("http://h")

(***************************************************************************)
(* URLs.                                                                   *)
(***************************************************************************)
Url(segs, trail) == [segs |-> segs, trail |-> trail]

\* the hrefs / <loc> entries the site can serve, already joined to absolute in-scope URLs
RawUrls ==
    { Url(<<>>, 1),
      Url(<<"blog", "a">>, 0),
      Url(<<"blog", "b">>, 0),
      Url(<<"blog", "a">>, 3) }

\* the argument of WebCrawler(base_url, ...)
SeedUrl == Url(<<>>, 1)

\* path segments of the model that have the shape of a locale token
LocaleShaped == {"en", "fr", "de", "en-US", "en-us", "deu", "eng"}

\* the locale-shaped segments that start with "en"
EnglishShaped == {"en", "en-US", "en-us", "eng"}

normalize_url(url) ==
    IF url.trail > 0 THEN [url EXCEPT !.trail = url.trail - 1] ELSE url

base_url == normalize_url(SeedUrl)

ExtractedUrls == { normalize_url(r) : r \in RawUrls }

QueueUrls == { normalize_url(e) : e \in ExtractedUrls } \cup { normalize_url(base_url) }

AllUrls == RawUrls \cup ExtractedUrls \cup QueueUrls
              \cup { normalize_url(q) : q \in QueueUrls } \cup {base_url}

HasSlashPath(url) == url.segs # <<>> \/ url.trail > 0

_get_section_key(url) ==
    IF url.segs = <<>> THEN "/" ELSE Head(url.segs)

SectionKeys == { _get_section_key(u) : u \in AllUrls }

(***************************************************************************)
(* Sequence helpers.                                                       *)
(***************************************************************************)
Range(s) == { s[i] : i \in 1..Len(s) }

Take(s, n) == IF Len(s) <= n THEN s ELSE SubSeq(s, 1, n)

BSeq(S, n) == UNION { [1..k -> S] : k \in 0..n }

NoDupSeq(S, n) == { s \in BSeq(S, n) : \A i, j \in 1..Len(s) : i # j => s[i] # s[j] }

NormalizedSet(s) == { normalize_url(s[i]) : i \in 1..Len(s) }

RECURSIVE MapNormalize(_)
MapNormalize(s) ==
    IF s = <<>> THEN <<>> ELSE <<normalize_url(Head(s))>> \o MapNormalize(Tail(s))

(***************************************************************************)
(* Locale deduplication (applied to the sitemap list before seeding).      *)
(***************************************************************************)
_is_locale_segment(seg) == seg \in LocaleShaped

\* the grouping key: netloc + path without the leading locale segment. The
\* key is "netloc" alone (bare) only for a path made of one locale segment.
_strip_locale(url) ==
    IF url.segs # <<>> /\ _is_locale_segment(Head(url.segs))
    THEN [bare |-> Tail(url.segs) = <<>>, segs |-> Tail(url.segs)]
    ELSE [bare |-> FALSE, segs |-> url.segs]

RECURSIVE SegChars(_)
SegChars(segs) ==
    IF segs = <<>> THEN 0 ELSE 1 + Len(Head(segs)) + SegChars(Tail(segs))

\* x.count('/') and len(x) of the URL string
SlashCount(url) == 2 + Len(url.segs) + url.trail
UrlLen(url) == HostLen + SegChars(url.segs) + url.trail

Shorter(x, y) ==
    \/ SlashCount(x) < SlashCount(y)
    \/ SlashCount(x) = SlashCount(y) /\ UrlLen(x) < UrlLen(y)

\* min(members, key=lambda x: (x.count('/'), len(x))): the first minimal member
MinMember(members) ==
    LET best == { i \in 1..Len(members) :
                    \A j \in 1..Len(members) : ~Shorter(members[j], members[i]) }
    IN members[CHOOSE i \in best : \A j \in best : i <= j]

IsEnglish(url) ==
    \E i \in 1..Len(url.segs) :
        url.segs[i] \in EnglishShaped /\ _is_locale_segment(url.segs[i])

\* (mutation) the members of a group are not selected by its key
GroupMembersAll(urls, key) == urls

GroupMembers(urls, key) ==
    SelectSeq(urls, LAMBDA u : _strip_locale(u) = key)

Representative(members) ==
    IF Len(members) = 1 THEN members[1]
    ELSE LET english == SelectSeq(members, IsEnglish)
         IN IF english # <<>> THEN MinMember(english) ELSE MinMember(members)

RECURSIVE DedupeFrom(_, _)
DedupeFrom(urls, i) ==
    IF i > Len(urls) THEN <<>>
    ELSE LET key == _strip_locale(urls[i])
             first == \A j \in 1..(i - 1) : _strip_locale(urls[j]) # key
         IN (IF first THEN <<Representative(GroupMembers(urls, key))>> ELSE <<>>)
                \o DedupeFrom(urls, i + 1)

_dedupe_urls_by_locale(urls) ==
    IF urls = <<>> THEN <<>> ELSE DedupeFrom(urls, 1)

(***************************************************************************)
(* Politeness gate.  robots_parser is None (loaded = FALSE) when           *)
(* RobotFileParser.read() raised (no connection, undecodable body).  When  *)
(* read() returns, the parser either parsed a body (body = TRUE) and holds *)
(* the Disallow path prefixes that apply to user agent '*', or it got an   *)
(* HTTP error for robots.txt (body = FALSE): after a 401, 403 or 5xx       *)
(* answer its can_fetch() is False for every URL, which is the rule set    *)
(* that disallows the empty prefix.  (After any other 4xx answer it allows *)
(* every URL, as None does.)                                               *)
(***************************************************************************)
None == [loaded |-> FALSE, body |-> FALSE, disallow |-> {}]

RobotPrefixes == { <<>>, <<"blog">> }

\* the parser left by a read() that got HTTP 401, 403 or 5xx
HttpErrorParser == [loaded |-> TRUE, body |-> FALSE, disallow |-> {<<>>}]

RobotsOutcomes ==
    {None, HttpErrorParser}
        \cup { [loaded |-> TRUE, body |-> TRUE, disallow |-> d] : d \in SUBSET RobotPrefixes }

IsPrefix(p, s) == Len(p) <= Len(s) /\ SubSeq(s, 1, Len(p)) = p

_can_fetch(url) ==
    IF ~robots_parser.loaded THEN TRUE
    ELSE ~ \E p \in robots_parser.disallow : IsPrefix(p, url.segs)

(***************************************************************************)
(* Page content and the soft-404 detector.                                 *)
(***************************************************************************)
Content(nf, canon, stub, h, l) ==
    [notfound |-> nf, canon_home |-> canon, stub |-> stub, vhash |-> h, vlen |-> l]

\* the page bodies the site can serve: a thin page, a thin page of another
\* text, a long page, and pages that trip each rule of the detector
Contents ==
    { Content(FALSE, FALSE, FALSE, "X", 150),
      Content(FALSE, FALSE, FALSE, "Y", 150),
      Content(FALSE, FALSE, FALSE, "X", 450),
      Content(TRUE,  FALSE, FALSE, "Y", 450),
      Content(FALSE, TRUE,  FALSE, "Y", 450),
      Content(FALSE, FALSE, TRUE,  "Y", 150) }

\* the empty dict, and a captured signature
\* (of the signature's fields, the detector modelled here reads url and visible_hash)
NoSignature == [captured |-> FALSE, url |-> base_url, vhash |-> ""]

Signature(url, h) == [captured |-> TRUE, url |-> url, vhash |-> h]

\* (mutation) the page is not compared with the signature's URL
_is_soft_404AnyPage(url, c, home_sig) ==
    IF ~home_sig.captured THEN FALSE
    ELSE IF c.notfound THEN TRUE
    ELSE IF c.canon_home THEN TRUE
    ELSE IF c.stub /\ c.vlen < 200 THEN TRUE
    ELSE c.vhash # "" /\ c.vhash = home_sig.vhash /\ c.vlen < 400

\* notfound: the visible text holds a not-found phrase; canon_home: canonical
\* or og:url normalizes to the homepage URL; stub: title and best description
\* both equal the homepage's
_is_soft_404(url, c, home_sig) ==
    IF ~home_sig.captured THEN FALSE
    ELSE IF normalize_url(url) = normalize_url(home_sig.url) THEN FALSE
    ELSE IF c.notfound THEN TRUE
    ELSE IF c.canon_home THEN TRUE
    ELSE IF c.stub /\ c.vlen < 200 THEN TRUE
    ELSE c.vhash # "" /\ c.vhash = home_sig.vhash /\ c.vlen < 400

(***************************************************************************)
(* The descriptions of _extract_metadata.  A text is what the comparisons  *)
(* of the code can tell apart: core is the text lower-cased, with          *)
(* whitespace collapsed and trailing punctuation removed; shout: the text  *)
(* has upper-case letters; punct: its trailing punctuation; len: its       *)
(* length; cut: extract_text_from_html truncated it.                       *)
(***************************************************************************)
Text(core, shout, punct, len) ==
    [core |-> core, shout |-> shout, punct |-> punct, len |-> len, cut |-> FALSE]

\* the empty string (None is treated alike by every test of the code)
NoText == Text("", FALSE, "", 0)

\* re.sub(r"\s+", " ", s.strip().lower()).rstrip(".!?:;,'\"")
_norm_desc(s) == IF s = NoText THEN "" ELSE s.core

\* re.search(r"[.!?]", s): the texts modelled carry punctuation at their end only
HasPunctuation(s) == s.punct # ""

\* text[:max_length].rsplit(' ', 1)[0] + '...' of extract_text_from_html;
\* space: where the last blank of the first max_length characters is
\* (max_length when they hold none)
extract_text_from_html(text, space, max_length) ==
    IF text.len > max_length
    THEN [text EXCEPT !.punct = "...", !.len = space + 3, !.cut = TRUE]
    ELSE text

\* description = meta_desc or og_desc, else the first <p>
Description(meta_desc, og_desc, first_p) ==
    IF meta_desc # NoText THEN meta_desc
    ELSE IF og_desc # NoText THEN og_desc
    ELSE IF first_p.text # NoText THEN extract_text_from_html(first_p.text, first_p.space, 200)
    ELSE NoText

\* jsonld: the longest description of 40..240 characters of the JSON-LD
\* objects; hero: the h1 and first p of <main> or <header>
_extract_best_description(og_desc, meta_desc, jsonld, structured, hero) ==
    IF og_desc # NoText THEN og_desc
    ELSE IF meta_desc # NoText THEN meta_desc
    ELSE IF jsonld # NoText THEN jsonld
    ELSE IF structured # NoText /\ 40 <= structured.len /\ structured.len <= 240 THEN structured
    ELSE IF 40 <= hero.len /\ hero.len <= 240 THEN hero
    ELSE NoText

\* best_description before the collision guard; main_para is
\* _first_good_paragraph(main_text), structured the first line of structured_text
BestDescription(p, description) ==
    IF p.main_para # NoText THEN p.main_para
    ELSE IF /\ p.structured # NoText
            /\ 80 <= p.structured.len /\ p.structured.len <= 300
            /\ HasPunctuation(p.structured)
         THEN p.structured
    ELSE LET best == _extract_best_description(p.og_desc, p.meta_desc, p.jsonld,
                                               p.structured, p.hero)
         IN IF best # NoText THEN best ELSE description

\* (mutation) the structured line is taken without comparing it
CollisionGuardFirstLine(best_description, p, home_best) ==
    LET home_desc_norm == _norm_desc(home_best)
        cand_norm == _norm_desc(best_description)
    IN IF home_desc_norm # "" /\ cand_norm # "" /\ cand_norm = home_desc_norm
       THEN IF p.main_para # NoText /\ _norm_desc(p.main_para) # home_desc_norm
            THEN p.main_para
            ELSE p.structured
       ELSE best_description

\* the collision guard; alt is _first_good_paragraph(main_text) again
CollisionGuard(best_description, p, home_best) ==
    LET home_desc_norm == _norm_desc(home_best)
        cand_norm == _norm_desc(best_description)
    IN IF home_desc_norm # "" /\ cand_norm # "" /\ cand_norm = home_desc_norm
       THEN IF p.main_para # NoText /\ _norm_desc(p.main_para) # home_desc_norm
            THEN p.main_para
            ELSE IF p.structured # NoText
                 THEN IF _norm_desc(p.structured) # home_desc_norm
                      THEN p.structured ELSE NoText
                 ELSE NoText
       ELSE best_description

\* the title and best_description rule of _is_soft_404: both non-empty and
\* equal to the signature's (the title of a record is never empty)
IsStub(title_same, best_description, home_best) ==
    /\ best_description # NoText
    /\ title_same
    /\ best_description = home_best

\* _extract_metadata(url, html_content) while a signature with best
\* description home_best exists: description, best_description and
\* is_soft_404 of the record for page p, whose text holds no not-found phrase,
\* whose canonical URL is not the homepage's and whose hash is not the homepage's
_extract_metadata(url, p, home_sig, home_best) ==
    LET description == Description(p.meta_desc, p.og_desc, p.first_p)
        best_description == BestDescription(p, description)
        guarded == IF /\ home_sig.captured
                      /\ normalize_url(url) # normalize_url(home_sig.url)
                   THEN CollisionGuard(best_description, p, home_best)
                   ELSE best_description
    IN [description |-> description,
        best_description |-> guarded,
        is_soft_404 |-> _is_soft_404(url,
                                     Content(FALSE, FALSE,
                                             IsStub(p.title_same, guarded, home_best),
                                             "Y", p.vlen),
                                     home_sig)]

(***************************************************************************)
(* HTTP responses.  status "fail" is a None response or a status other     *)
(* than 200; "nonhtml" is a 200 whose Content-Type is not HTML; "html" is  *)
(* a 200 HTML page.  throws: _extract_metadata raises on this body.        *)
(***************************************************************************)
Response(st, th, c) == [status |-> st, throws |-> th, content |-> c]

Responses ==
    { Response("fail", FALSE, Content(FALSE, FALSE, FALSE, "", 0)) }
        \cup { Response(st, TRUE, Content(FALSE, FALSE, FALSE, "", 0)) : st \in {"nonhtml", "html"} }
        \cup { Response(st, FALSE, c) : st \in {"nonhtml", "html"}, c \in Contents }

\* response and response.status_code == 200
Is200(resp) == resp.status # "fail"

\* what the three extractors find in a body: _extract_navigation_links,
\* _extract_internal_links and the structured_urls of _extract_metadata
LinkSets ==
    { l \in [nav : NoDupSeq(ExtractedUrls, MaxLinks),
             internal : NoDupSeq(ExtractedUrls, MaxLinks),
             structured : NoDupSeq(ExtractedUrls, MaxLinks)] :
        Len(l.nav) + Len(l.internal) + Len(l.structured) <= MaxLinks }

\* file names of the model that hold one of the skip_patterns of the first
\* loop of _extract_internal_links, and those that hold one of the
\* skip_extensions of its second loop ('.jpeg' is missing from the latter)
SkipPatternShaped == {"f.pdf", "f.jpeg"}

SkipExtensionShaped == {"f.pdf"}

\* any(skip in normalized.lower() for skip in skip_patterns)
HasSkipPattern(url) == \E i \in 1..Len(url.segs) : url.segs[i] \in SkipPatternShaped

\* any(ext in normalized.lower() for ext in skip_extensions)
HasSkipExtension(url) == \E i \in 1..Len(url.segs) : url.segs[i] \in SkipExtensionShaped

\* an <a href> of a page, joined to an absolute in-scope URL; nav: a nav
\* selector matches it; content: a content selector matches it
Anchor(url, nav, content) == [url |-> url, nav |-> nav, content |-> content]

\* set(nav_links) of _extract_navigation_links
_extract_navigation_links(anchors) ==
    { normalize_url(a.url) : a \in { b \in Range(anchors) : b.nav } }

\* set(links) of _extract_internal_links: every anchor passes the first
\* loop, the anchors of the content area pass the second loop too
_extract_internal_links(anchors) ==
    { normalize_url(a.url) :
        a \in { b \in Range(anchors) : ~HasSkipPattern(normalize_url(b.url)) } }
    \cup
    { normalize_url(a.url) :
        a \in { b \in Range(anchors) :
                  b.content /\ ~HasSkipExtension(normalize_url(b.url)) } }

\* list(set(...)): the elements in any order
Orders(S) == { s \in NoDupSeq(S, Cardinality(S)) : Range(s) = S }

RECURSIVE Extras(_, _, _, _)
Extras(structured, nav_links, other_links, extras) ==
    IF structured = <<>> THEN extras
    ELSE LET nu == normalize_url(Head(structured))
             extras2 == IF nu \notin Range(nav_links) /\ nu \notin Range(other_links)
                        THEN Append(extras, nu) ELSE extras
         IN IF Len(extras2) >= ExtrasCap THEN extras2
            ELSE Extras(Tail(structured), nav_links, other_links, extras2)

\* other_links of _crawl_page
OtherLinks(l, structured_urls) ==
    LET page_links == SelectSeq(l.internal,
                                LAMBDA u : u \notin Range(l.nav) /\ HasSlashPath(u))
        other_links == Take(page_links, OtherCap)
    IN IF structured_urls # <<>>
       THEN Take(Extras(structured_urls, l.nav, other_links, <<>>) \o other_links, OtherCap)
       ELSE other_links

\* a record of self.pages
PageRecord(url, soft) == [url |-> url, is_soft_404 |-> soft]

\* the try/except around _extract_metadata in _crawl_page: the full record, or the minimal one
ExtractedRecord(url, resp) ==
    IF resp.throws THEN PageRecord(url, FALSE)
    ELSE PageRecord(url, _is_soft_404(url, resp.content, homepage_signature))

\* (mutation) a flagged record is dropped
RecordPageUnlessSoft(pgs, rec) == IF rec.is_soft_404 THEN pgs ELSE Append(pgs, rec)

\* self.pages.append(metadata), before is_soft_404 is looked at
RecordPage(pgs, rec) == Append(pgs, rec)

\* (mutation) the signature is taken from every fetch of the homepage
CaptureSignatureAlways(url, resp) ==
    IF normalize_url(url) = normalize_url(base_url)
    THEN IF resp.throws THEN Signature(url, "")
         ELSE Signature(url, resp.content.vhash)
    ELSE homepage_signature

CaptureSignature(url, resp) ==
    IF normalize_url(url) = normalize_url(base_url) /\ ~homepage_signature.captured
    THEN IF resp.throws THEN Signature(url, "")
         ELSE Signature(url, resp.content.vhash)
    ELSE homepage_signature

\* (mutation) the soft-404 flag is ignored
DeadEndNever(rec) == FALSE

\* if metadata.get("is_soft_404"): return [], []
DeadEnd(rec) == rec.is_soft_404

\* _crawl_page(url): the new pages, signature and section counts, and the links returned
_crawl_page(url, resp, l) ==
    IF resp.status # "html"
    THEN [pages |-> pages, sig |-> homepage_signature, counts |-> section_counts,
          nav |-> <<>>, other |-> <<>>]
    ELSE LET rec == ExtractedRecord(url, resp)
             pages2 == RecordPage(pages, rec)
             sig2 == CaptureSignature(url, resp)
         IN IF DeadEnd(rec)
            THEN [pages |-> pages2, sig |-> sig2, counts |-> section_counts,
                  nav |-> <<>>, other |-> <<>>]
            ELSE [pages |-> pages2, sig |-> sig2,
                  counts |-> [section_counts EXCEPT ![_get_section_key(url)] = @ + 1],
                  nav |-> l.nav,
                  other |-> OtherLinks(l, IF resp.throws THEN <<>> ELSE l.structured)]

_check_section_dominance(url) ==
    IF Cardinality(visited_urls) = 0 THEN FALSE
    ELSE 10 * section_counts[_get_section_key(url)] > 4 * Cardinality(visited_urls)

(***************************************************************************)
(* crawl().                                                                *)
(***************************************************************************)
NoHops == -1

NotListed == [nav |-> {}, other |-> {}]

\* no function is called on its own during a run of crawl()
NoCall == [fn |-> "", arg |-> <<>>]

NoReturn == [done |-> FALSE, value |-> <<>>]

\* WebCrawler(base_url, max_depth, max_pages)
Constructed ==
    /\ pc = "robots"
    /\ max_depth \in 0..MaxDepthBound
    /\ max_pages \in 0..MaxPagesBound
    /\ robots_parser = None
    /\ homepage_signature = NoSignature
    /\ visited_urls = {}
    /\ pages = <<>>
    /\ section_counts = [k \in SectionKeys |-> 0]
    /\ defer_counts = [u \in QueueUrls |-> 0]
    /\ nav_queues = [d \in 0..max_depth |-> <<>>]
    /\ other_queues = [d \in 0..max_depth |-> <<>>]
    /\ queued_urls = {}
    /\ depth = 0
    /\ sitemap = [ok |-> FALSE, urls |-> <<>>]
    /\ hops = [u \in QueueUrls |-> NoHops]
    /\ listed = [u \in QueueUrls |-> NotListed]
    /\ overtook = {}
    /\ flagged = {}
    /\ fetch_log = {}
    /\ runs = 1

Init ==
    /\ Constructed
    /\ call = NoCall
    /\ ret = NoReturn

\* self._check_robots_txt()
CheckRobots ==
    /\ pc = "robots"
    /\ robots_parser' \in RobotsOutcomes
    /\ pc' = "signature"
    /\ UNCHANGED <<call, ret, runs>>
    /\ UNCHANGED <<max_depth, max_pages, homepage_signature, visited_urls, pages,
                   section_counts, defer_counts, nav_queues, other_queues,
                   queued_urls, depth, sitemap, hops, listed, overtook, flagged, fetch_log>>

\* the guarded fetch of the homepage before the loop
FetchHomepageSignature ==
    /\ pc = "signature"
    /\ IF ~homepage_signature.captured /\ _can_fetch(base_url)
       THEN \E resp \in Responses :
              /\ fetch_log' = fetch_log \cup {[phase |-> "signature", ok |-> Is200(resp)]}
              /\ homepage_signature' =
                    IF resp.status = "html" /\ ~resp.throws
                    THEN Signature(base_url, resp.content.vhash)
                    ELSE homepage_signature
       ELSE UNCHANGED <<fetch_log, homepage_signature>>
    /\ defer_counts' = [u \in QueueUrls |-> 0]
    /\ pc' = "seed"
    /\ UNCHANGED <<call, ret, runs>>
    /\ UNCHANGED <<max_depth, max_pages, robots_parser, visited_urls, pages,
                   section_counts, nav_queues, other_queues, queued_urls, depth,
                   sitemap, hops, listed, overtook, flagged>>

RECURSIVE SeedFrom(_, _, _)
SeedFrom(urls, queue, queued) ==
    IF urls = <<>> THEN [queue |-> queue, queued |-> queued]
    ELSE LET normalized == normalize_url(Head(urls))
             ok == /\ normalized \notin visited_urls
                   /\ normalized \notin queued
                   /\ _can_fetch(normalized)
         IN SeedFrom(Tail(urls),
                     IF ok THEN Append(queue, normalized) ELSE queue,
                     IF ok THEN queued \cup {normalized} ELSE queued)

\* (mutation) the base URL is seeded when no sitemap URL was
SeedsBaseIfNone(sitemap_urls) ==
    LET seeded == SeedFrom(Take(_dedupe_urls_by_locale(sitemap_urls), max_pages), <<>>, {})
    IN IF sitemap_urls # <<>> /\ seeded.queue # <<>>
       THEN seeded
       ELSE [queue |-> <<normalize_url(base_url)>>, queued |-> {normalize_url(base_url)}]

\* the seeds of the depth-0 nav queue
Seeds(sitemap_urls) ==
    IF sitemap_urls # <<>>
    THEN SeedFrom(Take(_dedupe_urls_by_locale(sitemap_urls), max_pages), <<>>, {})
    ELSE [queue |-> <<normalize_url(base_url)>>, queued |-> {normalize_url(base_url)}]

\* _parse_sitemap() and the seeding of nav_queues[0]
SeedFrontier ==
    /\ pc = "seed"
    /\ \E ok \in BOOLEAN, locs \in BSeq(RawUrls, MaxSitemap) :
          /\ ~ok => locs = <<>>
          /\ sitemap' = [ok |-> ok, urls |-> MapNormalize(locs)]
          /\ LET seeded == Seeds(MapNormalize(locs))
             IN /\ nav_queues' = [d \in 0..max_depth |-> IF d = 0 THEN seeded.queue ELSE <<>>]
                /\ queued_urls' = seeded.queued
                /\ hops' = [u \in QueueUrls |-> IF u \in Range(seeded.queue) THEN 0 ELSE NoHops]
    /\ other_queues' = [d \in 0..max_depth |-> <<>>]
    /\ depth' = 0
    /\ pc' = "loop"
    /\ UNCHANGED <<call, ret, runs>>
    /\ UNCHANGED <<max_depth, max_pages, robots_parser, homepage_signature,
                   visited_urls, pages, section_counts, defer_counts, listed, overtook,
                   flagged, fetch_log>>

\* the condition of the while loop of one depth tier
LoopCond ==
    /\ nav_queues[depth] # <<>> \/ other_queues[depth] # <<>>
    /\ Cardinality(visited_urls) < max_pages

priority == IF nav_queues[depth] # <<>> THEN "nav" ELSE "other"

NextUrl == IF priority = "nav" THEN Head(nav_queues[depth]) ELSE Head(other_queues[depth])

PoppedNav == IF priority = "nav" THEN [nav_queues EXCEPT ![depth] = Tail(@)] ELSE nav_queues

PoppedOther == IF priority = "other" THEN [other_queues EXCEPT ![depth] = Tail(@)] ELSE other_queues

Skipped(url) == url \in visited_urls \/ ~_can_fetch(url)

\* (mutation) the deferral bound is off by one
DeferredOffByOne(url) ==
    /\ _check_section_dominance(url)
    /\ priority = "other"
    /\ defer_counts[url] <= MAX_DEFERS

\* (mutation) candidates of the nav queue are deferred too
DeferredAnyQueue(url) ==
    /\ _check_section_dominance(url)
    /\ defer_counts[url] < MAX_DEFERS

Deferred(url) ==
    /\ _check_section_dominance(url)
    /\ priority = "other"
    /\ defer_counts[url] < MAX_DEFERS

\* the candidate is dropped: already visited, or disallowed by robots
PopSkip ==
    /\ pc = "loop" /\ LoopCond
    /\ Skipped(NextUrl)
    /\ nav_queues' = PoppedNav
    /\ other_queues' = PoppedOther
    /\ queued_urls' = queued_urls \ {NextUrl}
    /\ UNCHANGED <<call, ret, runs>>
    /\ UNCHANGED <<pc, max_depth, max_pages, robots_parser, homepage_signature,
                   visited_urls, pages, section_counts, defer_counts, depth,
                   sitemap, hops, listed, overtook, flagged, fetch_log>>

\* (mutation) the count starts over when it reaches the bound
NextDeferCountWrap(defer_count) == (defer_count + 1) % MAX_DEFERS

\* self.defer_counts[url] = defer_count + 1
NextDeferCount(defer_count) == defer_count + 1

\* dominance deferral: the candidate goes to the back of the same tier's other queue
PopDefer ==
    /\ pc = "loop" /\ LoopCond
    /\ ~Skipped(NextUrl)
    /\ Deferred(NextUrl)
    /\ defer_counts' = [defer_counts EXCEPT ![NextUrl] = NextDeferCount(@)]
    /\ nav_queues' = PoppedNav
    /\ other_queues' = [PoppedOther EXCEPT ![depth] = Append(@, NextUrl)]
    /\ queued_urls' = (queued_urls \ {NextUrl}) \cup {NextUrl}
    /\ UNCHANGED <<call, ret, runs>>
    /\ UNCHANGED <<pc, max_depth, max_pages, robots_parser, homepage_signature,
                   visited_urls, pages, section_counts, depth, sitemap, hops, listed, overtook, flagged, fetch_log>>

\* (mutation) a fetched URL is not added to the visited set
MarkVisitedNot(visited, url) == visited

\* self.visited_urls.add(url)
MarkVisited(visited, url) == visited \cup {url}

\* (mutation) the children are enqueued in the tier of their parent
ChildDepthSameTier(d) == d

\* the tier the children of a page fetched at tier d are enqueued in
ChildDepth(d) == d + 1

CanExpand(d, visited) == d < max_depth /\ Cardinality(visited) < max_pages

\* (mutation) a link is enqueued whether or not it already waits in a queue
CanEnqueueUnguarded(normalized, queued, visited) ==
    /\ normalized \notin visited
    /\ Cardinality(visited) < max_pages
    /\ _can_fetch(normalized)

\* (mutation) a link is enqueued whether or not it was visited
CanEnqueueRevisit(normalized, queued, visited) ==
    /\ normalized \notin queued
    /\ Cardinality(visited) < max_pages
    /\ _can_fetch(normalized)

\* the condition under which a link of a fetched page is enqueued
CanEnqueue(normalized, queued, visited) ==
    /\ normalized \notin visited
    /\ normalized \notin queued
    /\ Cardinality(visited) < max_pages
    /\ _can_fetch(normalized)

RECURSIVE EnqueueLinks(_, _, _, _)
EnqueueLinks(links, queue, queued, visited) ==
    IF links = <<>> THEN [queue |-> queue, queued |-> queued]
    ELSE LET normalized == normalize_url(Head(links))
             ok == CanEnqueue(normalized, queued, visited)
         IN EnqueueLinks(Tail(links),
                         IF ok THEN Append(queue, normalized) ELSE queue,
                         IF ok THEN queued \cup {normalized} ELSE queued,
                         visited)

NoLinks == [nav |-> <<>>, internal |-> <<>>, structured |-> <<>>]

\* whether the links of the body reach the frontier: the page is an HTML page,
\* not a dead end, and the loop iterates the links _crawl_page returns
LinksRead(url, resp) ==
    /\ resp.status = "html"
    /\ ~DeadEnd(ExtractedRecord(url, resp))
    /\ CanExpand(depth, MarkVisited(visited_urls, url))

\* the candidate is marked visited, fetched, and its links are enqueued
PopFetch ==
    /\ pc = "loop" /\ LoopCond
    /\ ~Skipped(NextUrl)
    /\ ~Deferred(NextUrl)
    /\ \E resp \in Responses :
       \E l \in (IF LinksRead(NextUrl, resp) THEN LinkSets ELSE {NoLinks}) :
           LET url == NextUrl
             visited == MarkVisited(visited_urls, url)
             out == _crawl_page(url, resp, l)
             expand == CanExpand(depth, visited)
             navq == PoppedNav
             otherq == PoppedOther
             queued == queued_urls \ {url}
             en == IF expand
                   THEN EnqueueLinks(out.nav, navq[ChildDepth(depth)], queued, visited)
                   ELSE [queue |-> <<>>, queued |-> queued]
             eo == IF expand
                   THEN EnqueueLinks(out.other, otherq[ChildDepth(depth)], en.queued, visited)
                   ELSE [queue |-> <<>>, queued |-> queued]
           IN /\ visited_urls' = visited
              /\ pages' = out.pages
              /\ homepage_signature' = out.sig
              /\ section_counts' = out.counts
              /\ nav_queues' = IF expand THEN [navq EXCEPT ![ChildDepth(depth)] = en.queue] ELSE navq
              /\ other_queues' = IF expand THEN [otherq EXCEPT ![ChildDepth(depth)] = eo.queue] ELSE otherq
              /\ queued_urls' = eo.queued
              /\ hops' = [u \in QueueUrls |->
                            IF u \in eo.queued \ queued THEN hops[url] + 1 ELSE hops[u]]
              /\ listed' = [u \in QueueUrls |->
                              IF u = url THEN NotListed
                              ELSE IF expand /\ u \in Range(eo.queue)
                                   THEN [nav |-> listed[u].nav \cup
                                            (IF u \in NormalizedSet(out.nav) THEN {url} ELSE {}),
                                         other |-> listed[u].other \cup
                                            (IF u \in NormalizedSet(out.other) THEN {url} ELSE {})]
                                   ELSE listed[u]]
              /\ overtook' = IF priority = "other"
                             THEN overtook \cup
                                    { <<url, n>> : n \in { m \in Range(otherq[depth]) :
                                          listed[url].other \cap listed[m].nav # {} } }
                             ELSE overtook
              /\ flagged' = IF resp.status = "html" /\ ExtractedRecord(url, resp).is_soft_404
                            THEN flagged \cup {url} ELSE flagged
              /\ fetch_log' = IF url = base_url
                              THEN fetch_log \cup {[phase |-> "loop", ok |-> Is200(resp)]}
                              ELSE fetch_log
    /\ UNCHANGED <<call, ret, runs>>
    /\ UNCHANGED <<pc, max_depth, max_pages, robots_parser, defer_counts, depth, sitemap>>

\* the while loop of this tier ends and the for loop moves to the next tier
AdvanceDepth ==
    /\ pc = "loop" /\ ~LoopCond
    /\ depth < max_depth
    /\ depth' = depth + 1
    /\ UNCHANGED <<call, ret, runs>>
    /\ UNCHANGED <<pc, max_depth, max_pages, robots_parser, homepage_signature,
                   visited_urls, pages, section_counts, defer_counts, nav_queues,
                   other_queues, queued_urls, sitemap, hops, listed, overtook, flagged, fetch_log>>

\* the for loop ends
ExitLoop ==
    /\ pc = "loop" /\ ~LoopCond
    /\ depth = max_depth
    /\ pc' = "fallback"
    /\ UNCHANGED <<call, ret, runs>>
    /\ UNCHANGED <<max_depth, max_pages, robots_parser, homepage_signature,
                   visited_urls, pages, section_counts, defer_counts, nav_queues,
                   other_queues, queued_urls, depth, sitemap, hops, listed, overtook, flagged, fetch_log>>

\* if not self.pages: one direct fetch of base_url; then return self.pages.
\* pc = "raised": an exception left crawl()
FallbackAndReturn ==
    /\ pc = "fallback"
    /\ IF pages = <<>>
       THEN \E resp \in Responses :
              /\ fetch_log' = fetch_log \cup {[phase |-> "fallback", ok |-> Is200(resp)]}
              /\ IF resp.status = "fail"
                 THEN pc' = "done" /\ pages' = pages
                 ELSE IF resp.throws
                      THEN pc' = "raised" /\ pages' = pages
                      ELSE /\ pc' = "done"
                           /\ pages' = Append(pages, PageRecord(base_url,
                                  _is_soft_404(base_url, resp.content, homepage_signature)))
       ELSE pc' = "done" /\ UNCHANGED <<fetch_log, pages>>
    /\ UNCHANGED <<call, ret, runs>>
    /\ UNCHANGED <<max_depth, max_pages, robots_parser, homepage_signature,
                   visited_urls, section_counts, defer_counts, nav_queues,
                   other_queues, queued_urls, depth, sitemap, hops, listed, overtook, flagged>>

Next ==
    \/ CheckRobots
    \/ FetchHomepageSignature
    \/ SeedFrontier
    \/ PopSkip
    \/ PopDefer
    \/ PopFetch
    \/ AdvanceDepth
    \/ ExitLoop
    \/ FallbackAndReturn

Spec == Init /\ [][Next]_vars

\* The runs checked for termination: the page budgets below MaxPagesBound.
FairInit == Init /\ max_pages < MaxPagesBound

\* crawl() runs to its end once called: no statement of it waits for anything
\* but its own fetches, and every fetch has a timeout
FairSpec == FairInit /\ [][Next]_vars /\ WF_vars(Next)

(***************************************************************************)
(* crawl() called again on the same WebCrawler.                            *)
(***************************************************************************)
\* crawl() is called once more after it returned: the attributes of the
\* object are what the last run left, the locals of crawl() are new
CrawlAgain ==
    /\ pc = "done"
    /\ runs < MaxRuns
    /\ runs' = runs + 1
    /\ pc' = "robots"
    /\ nav_queues' = [d \in 0..max_depth |-> <<>>]
    /\ other_queues' = [d \in 0..max_depth |-> <<>>]
    /\ queued_urls' = {}
    /\ depth' = 0
    /\ sitemap' = [ok |-> FALSE, urls |-> <<>>]
    /\ hops' = [u \in QueueUrls |-> NoHops]
    /\ listed' = [u \in QueueUrls |-> NotListed]
    /\ overtook' = {}
    /\ flagged' = {}
    /\ fetch_log' = {}
    /\ UNCHANGED <<call, ret>>
    /\ UNCHANGED <<max_depth, max_pages, robots_parser, homepage_signature,
                   visited_urls, pages, section_counts, defer_counts>>

\* the crawlers that are used again: the page budgets below MaxPagesBound
ReuseInit == Init /\ max_pages < MaxPagesBound

ReuseNext == Next \/ CrawlAgain

ReuseSpec == ReuseInit /\ [][ReuseNext]_vars

(***************************************************************************)
(* normalize_url and _dedupe_urls_by_locale called on their own.           *)
(***************************************************************************)
\* URLs whose path ends in 0..MaxTrail slashes
NormalizeArgs ==
    { Url(segs, t) : segs \in { <<>>, <<"a">>, <<"blog", "a">> }, t \in 0..MaxTrail }

\* URLs of one page in several locales, of a locale root, of the site root,
\* and of a page whose own name has the shape of an English locale token
LocaleUrls ==
    { Url(<<>>, 0),
      Url(<<"en">>, 0),
      Url(<<"a">>, 0),
      Url(<<"en", "a">>, 0),
      Url(<<"fr", "a">>, 0),
      Url(<<"fr", "a">>, 1),
      Url(<<"fr", "b">>, 0),
      Url(<<"fr", "eng">>, 0),
      Url(<<"en-US", "eng">>, 0) }

DedupeArgs == BSeq(LocaleUrls, MaxList)

\* the first <p> of a page: none, a short one, and long ones whose first 200
\* characters end differently
FirstParagraphs ==
    { [text |-> NoText, space |-> 0],
      [text |-> Text("para", FALSE, ".", 120), space |-> 110],
      [text |-> Text("para", FALSE, ".", 260), space |-> 150],
      [text |-> Text("para", FALSE, ".", 260), space |-> 199],
      [text |-> Text("para", FALSE, ".", 260), space |-> 200] }

\* the parts of a page that _extract_metadata reads for its descriptions
PageBodies ==
    [ meta_desc : { NoText, Text("acme", FALSE, ".", 100), Text("page", FALSE, ".", 100) },
      og_desc : { NoText, Text("acme", TRUE, "", 100), Text("", FALSE, "...", 3) },
      first_p : FirstParagraphs,
      main_para : { NoText, Text("acme", FALSE, ".", 100), Text("main", FALSE, ".", 100) },
      structured : { NoText, Text("acme", FALSE, "!", 100), Text("acme", FALSE, ".", 60),
                     Text("data", FALSE, ".", 60) },
      jsonld : { NoText, Text("json", FALSE, ".", 100) },
      hero : { NoText, Text("hero", FALSE, "", 50) },
      title_same : BOOLEAN,
      vlen : { 150, 250 } ]

\* the best description of the homepage signature
HomeDescriptions ==
    { NoText, Text("acme", FALSE, ".", 100), Text("", FALSE, "...", 3) }

\* the anchors and structured-data URLs of a page
AnchorUrls ==
    { Url(<<"blog", "a">>, 0), Url(<<"docs", "f.pdf">>, 0), Url(<<"docs", "f.jpeg">>, 0) }

Anchors == { Anchor(u, n, c) : u \in AnchorUrls, n \in BOOLEAN, c \in BOOLEAN }

LinkArgs == [ anchors : BSeq(Anchors, MaxLinks), structured : BSeq(AnchorUrls, 1) ]

ExtractArgs ==
    [ url : { base_url, Url(<<"a">>, 0) }, page : PageBodies, home_best : HomeDescriptions ]

PureInit ==
    /\ Constructed
    /\ max_depth = 0
    /\ max_pages = 0
    /\ \/ \E u \in NormalizeArgs : call = [fn |-> "normalize_url", arg |-> u]
       \/ \E urls \in DedupeArgs : call = [fn |-> "_dedupe_urls_by_locale", arg |-> urls]
       \/ \E a \in ExtractArgs : call = [fn |-> "_extract_metadata", arg |-> a]
       \/ \E a \in LinkArgs : call = [fn |-> "_crawl_page", arg |-> a]
    /\ ret = NoReturn

CallNormalizeUrl ==
    /\ call.fn = "normalize_url"
    /\ ~ret.done
    /\ ret' = [done |-> TRUE, value |-> normalize_url(call.arg)]
    /\ UNCHANGED <<call, crawler_vars>>

CallDedupeUrlsByLocale ==
    /\ call.fn = "_dedupe_urls_by_locale"
    /\ ~ret.done
    /\ ret' = [done |-> TRUE, value |-> _dedupe_urls_by_locale(call.arg)]
    /\ UNCHANGED <<call, crawler_vars>>

\* _extract_metadata called for a page once the homepage signature is captured
CallExtractMetadata ==
    /\ call.fn = "_extract_metadata"
    /\ ~ret.done
    /\ ret' = [done |-> TRUE,
               value |-> _extract_metadata(call.arg.url, call.arg.page,
                                           Signature(base_url, "X"), call.arg.home_best)]
    /\ UNCHANGED <<call, crawler_vars>>

\* the link extraction of _crawl_page for a page that is recorded and not flagged
CallCrawlPageLinks ==
    /\ call.fn = "_crawl_page"
    /\ ~ret.done
    /\ \E nav \in Orders(_extract_navigation_links(call.arg.anchors)),
          internal \in Orders(_extract_internal_links(call.arg.anchors)) :
          ret' = [done |-> TRUE,
                  value |-> [nav |-> nav,
                             other |-> OtherLinks([nav |-> nav, internal |-> internal],
                                                  MapNormalize(call.arg.structured))]]
    /\ UNCHANGED <<call, crawler_vars>>

PureNext ==
    \/ CallNormalizeUrl
    \/ CallDedupeUrlsByLocale
    \/ CallExtractMetadata
    \/ CallCrawlPageLinks

PureSpec == PureInit /\ [][PureNext]_vars

(***************************************************************************)
(* Properties.                                                             *)
(***************************************************************************)
Returned == pc = "done"

Ended == pc \in {"done", "raised"}

Queued(d) == Range(nav_queues[d]) \cup Range(other_queues[d])

RecordsOf(url) == { i \in 1..Len(pages) : pages[i].url = url }

\* C1: no URL appears twice in the list crawl() returns, comparing URLs by
\* canonical key: two distinct records never have the same normalize_url(url).
C1_NoDuplicateKey ==
    Returned =>
        \A i, j \in 1..Len(pages) :
            i # j => normalize_url(pages[i].url) # normalize_url(pages[j].url)

\* C2: for every maxPages >= 0 the list crawl() returns has at most maxPages
\* records, the record added by the fallback fetch included.
C2_BudgetRespected ==
    Returned => Len(pages) <= max_pages

\* C3: no page more than maxDepth link hops from a seed is fetched: every
\* fetched URL was popped from a tier d <= maxDepth, a URL waits in tier d only
\* if it is d hops from a seed (a seed for d = 0, a link of a page fetched at
\* tier d - 1 otherwise), and nothing is enqueued from a page fetched at maxDepth.
C3_DepthBound ==
    /\ depth \in 0..max_depth
    /\ \A u \in visited_urls : hops[u] \in 0..max_depth
    /\ \A u \in QueueUrls : hops[u] <= max_depth
    /\ \A d \in 0..max_depth : \A u \in Queued(d) : hops[u] = d

\* a page of the last tier was fetched as a full HTML page while budget remained
C3_Witness ==
    /\ max_depth >= 1
    /\ Cardinality(visited_urls) < max_pages
    /\ \E u \in visited_urls :
         /\ hops[u] = max_depth
         /\ PageRecord(u, FALSE) \in Range(pages)

\* C4: crawl() always returns a list and never raises, whatever the robots,
\* sitemap, fetch and extraction outcomes are.
C4_NeverRaises ==
    pc # "raised"

\* the hypothesis of C5: robots.txt and the sitemap failed to load, and every
\* direct fetch of the seed returned 200
SeedOnly200 ==
    /\ ~robots_parser.body
    /\ ~sitemap.ok
    /\ \A f \in fetch_log : f.ok

\* C5: when the seed answers 200 on direct fetch while the sitemap and
\* robots.txt both fail to load, crawl() returns a list that holds exactly one
\* record whose URL is the seed.
C5_SeedRecorded ==
    (Ended /\ SeedOnly200) => (Returned /\ Cardinality(RecordsOf(base_url)) = 1)

FallbackFetches == { f \in fetch_log : f.phase = "fallback" }

\* C6: crawl() returns the empty list only when the fallback fetch of the base
\* URL failed: when the depth loop recorded no page one direct fetch of the
\* base URL is made whatever robots, dominance and the content type say; if it
\* returns 200 the result is not empty, if it fails the result is empty.
C6_FallbackResult ==
    Ended =>
        /\ Cardinality(FallbackFetches) <= 1
        /\ FallbackFetches = {} => (Returned /\ pages # <<>>)
        /\ \A f \in FallbackFetches :
              IF ~f.ok THEN Returned /\ pages = <<>>
              ELSE Returned /\ pages # <<>>

\* C7: the nav links of a fetched page are dispatched before its other links
\* at the next tier when none of them is deferred: no URL o that a page listed
\* as other link leaves the other queue while a URL n that the same page
\* listed as nav link still waits in that tier.
C7_NavBeforeOther ==
    Returned =>
        \A pair \in overtook :
            defer_counts[pair[1]] > 0 \/ defer_counts[pair[2]] > 0

\* the share of section s among the URLs fetched so far, and among the pages recorded so far
VisitedIn(s) == { u \in visited_urls : _get_section_key(u) = s }

RecordedIn(s) == { i \in 1..Len(pages) : _get_section_key(pages[i].url) = s }

ShareExceeds(s) ==
    /\ 10 * Cardinality(VisitedIn(s)) > 4 * Cardinality(visited_urls)
    /\ 10 * Cardinality(RecordedIn(s)) > 4 * Len(pages)

\* this step marks the head of the other queue visited and fetches it
FetchesOther ==
    /\ pc = "loop" /\ LoopCond
    /\ priority = "other"
    /\ visited_urls' = visited_urls \cup {NextUrl}
    /\ visited_urls' # visited_urls

\* C8: while a section contributes more than 40% of the pages fetched so far,
\* no URL of that section is fetched from the other queue unless it has been
\* deferred 3 times.
C8_DominanceBound ==
    [][ (FetchesOther /\ ShareExceeds(_get_section_key(NextUrl)))
            => defer_counts[NextUrl] >= MAX_DEFERS ]_vars

\* C9 as stated: a page flagged soft-404 is not in the list crawl() returns.
C9_Soft404Excluded ==
    Returned => \A u \in flagged : RecordsOf(u) = {}

\* C9 as amended: a page flagged soft-404 is in the list crawl() returns, as
\* one record that carries is_soft_404 = TRUE.
C9_Soft404Recorded ==
    \A u \in flagged :
        /\ Cardinality(RecordsOf(u)) = 1
        /\ \A i \in RecordsOf(u) : pages[i].is_soft_404

\* crawl() returned a list that holds a page flagged soft-404
C9_Witness ==
    Returned /\ \E u \in flagged : PageRecord(u, TRUE) \in Range(pages)

\* this step fetches a page that is flagged soft-404
FetchesSoft404 == pc = "loop" /\ flagged' # flagged

\* C10: a page flagged soft-404 contributes no children: the step that fetches
\* it only pops it; no queue of any tier gains a URL.
C10_Soft404NoChildren ==
    [][ FetchesSoft404 =>
          /\ nav_queues' = PoppedNav
          /\ other_queues' = PoppedOther
          /\ queued_urls' = queued_urls \ {NextUrl} ]_vars

\* a page flagged soft-404 was fetched above the last tier while budget remained
C10_Witness ==
    /\ Cardinality(visited_urls) < max_pages
    /\ \E u \in flagged : hops[u] < max_depth

\* the number of GETs of page u so far: the depth loop fetches a URL when it
\* marks it visited; the fetch before the loop and the fallback fetch fetch base_url
Fetches(u) ==
    (IF u \in visited_urls THEN 1 ELSE 0)
        + (IF u = base_url
           THEN Cardinality({ f \in fetch_log : f.phase # "loop" })
           ELSE 0)

\* C11: within one run no URL is fetched more than once, counting the fetch of
\* the homepage before the loop, the fetches of the depth loop and the fallback fetch.
C11_FetchedOnce ==
    \A u \in AllUrls : Fetches(u) <= 1

\* C14: when loading robots.txt fails, robots enforcement is off for the whole
\* run: the gate permits every URL.
C14_RobotsFailOpen ==
    ~robots_parser.body => \A u \in AllUrls : _can_fetch(u)

\* the positions of all queues, and the URL at a position
Slots ==
    UNION { { <<"nav", d, i>> : i \in 1..Len(nav_queues[d]) }
                \cup { <<"other", d, i>> : i \in 1..Len(other_queues[d]) } : d \in 0..max_depth }

SlotUrl(s) ==
    IF s[1] = "nav" THEN nav_queues[s[2]][s[3]] ELSE other_queues[s[2]][s[3]]

\* C15: a URL is never enqueued twice at the same time: every URL occurs at
\* most once over all nav and other queues of all tiers, and queued_urls is
\* the set of the URLs that wait.
C15_QueuedOnce ==
    /\ \A s, t \in Slots : s # t => SlotUrl(s) # SlotUrl(t)
    /\ queued_urls = { SlotUrl(s) : s \in Slots }

\* a deferred URL waits again, next to another URL
C15_Witness ==
    /\ Cardinality(Slots) >= 2
    /\ \E s \in Slots : defer_counts[SlotUrl(s)] > 0

\* C17: no URL is deferred more than 3 times (no step takes a defer count,
\* 0 at the start, above 3), and a URL popped from the other queue after 3
\* deferrals is marked visited in that iteration.
C17_DeferBound ==
    [][ /\ \A u \in QueueUrls : defer_counts'[u] <= MAX_DEFERS
        /\ (pc = "loop" /\ LoopCond /\ priority = "other"
              /\ defer_counts[NextUrl] = MAX_DEFERS)
            => NextUrl \in visited_urls' ]_vars

\* a URL was fetched after 3 deferrals while its section, without that page,
\* still held more than 40% of the visited URLs
C17_Witness ==
    /\ pages # <<>>
    /\ LET rec == pages[Len(pages)]
           s == _get_section_key(rec.url)
       IN /\ ~rec.is_soft_404
          /\ rec.url \in visited_urls
          /\ defer_counts[rec.url] = MAX_DEFERS
          /\ 10 * (section_counts[s] - 1) > 4 * (Cardinality(visited_urls) - 1)

\* C18: only a candidate popped from the other queue is deferred: a URL popped
\* from a nav queue is never deferred or requeued; a deferred URL goes to the
\* back of the other queue of the same tier, and the deferral leaves
\* visited_urls, pages and section_counts as they are.
C18_OnlyOtherDeferred ==
    [][ (pc = "loop" /\ LoopCond) =>
          /\ priority = "nav" =>
                /\ defer_counts' = defer_counts
                /\ NextUrl \notin queued_urls'
          /\ defer_counts' # defer_counts =>
                /\ priority = "other"
                /\ nav_queues' = nav_queues
                /\ other_queues' = [other_queues EXCEPT ![depth] = Append(Tail(@), NextUrl)]
                /\ UNCHANGED <<visited_urls, pages, section_counts>> ]_vars

\* a deferred URL is at the back of an other queue that holds another URL
C18_Witness ==
    /\ pc = "loop"
    /\ Len(other_queues[depth]) >= 2
    /\ defer_counts[other_queues[depth][Len(other_queues[depth])]] > 0

\* C19 as stated: fetching a page flagged soft-404 takes no slot of the page
\* budget: the number of pages the loop may still fetch stays the same.
C19_Soft404NoSlot ==
    [][ FetchesSoft404 =>
          max_pages - Cardinality(visited_urls') = max_pages - Cardinality(visited_urls) ]_vars

\* C19 as amended: fetching a page flagged soft-404 takes one slot of the page
\* budget: the URL joins visited_urls, whose size the loop compares with max_pages.
C19_Soft404TakesSlot ==
    [][ FetchesSoft404 =>
          /\ Cardinality(visited_urls) < max_pages
          /\ NextUrl \notin visited_urls
          /\ visited_urls' = visited_urls \cup {NextUrl} ]_vars

\* the budget is used up by a run that fetched a soft-404 page, while a URL still waits
C19_Witness ==
    /\ flagged # {}
    /\ flagged \subseteq visited_urls
    /\ Cardinality(visited_urls) = max_pages
    /\ queued_urls # {}

\* C20: the homepage signature is captured at most once: once it is set no
\* later step changes it.
C20_SignatureKept ==
    [][ homepage_signature.captured => homepage_signature' = homepage_signature ]_vars

\* the homepage was fetched again by the depth loop after its signature was taken
C20_Witness ==
    /\ homepage_signature.captured
    /\ [phase |-> "signature", ok |-> TRUE] \in fetch_log
    /\ [phase |-> "loop", ok |-> TRUE] \in fetch_log

\* C16: the crawl loop always terminates: every run of crawl() leaves the
\* depth loop and ends, also when dominance deferral requeues candidates.
C16_Terminates ==
    <>Ended

\* a run ended after a URL was deferred as often as the bound allows
C16_Witness ==
    /\ Ended
    /\ \E u \in QueueUrls : defer_counts[u] = MAX_DEFERS

\* C12: normalization is idempotent: normalizing a normalized URL returns it.
C12_NormalizeIdempotent ==
    (call.fn = "normalize_url" /\ ret.done) => normalize_url(ret.value) = ret.value

\* C13: locale deduplication is idempotent: deduplicating a deduplicated list
\* returns the same elements in the same order.
C13_DedupeIdempotent ==
    (call.fn = "_dedupe_urls_by_locale" /\ ret.done)
        => _dedupe_urls_by_locale(ret.value) = ret.value

\* a list of three URLs was deduplicated to two: two locales of one page were
\* merged into the English one, which came second, and another page was kept
C13_Witness ==
    /\ call.fn = "_dedupe_urls_by_locale"
    /\ ret.done
    /\ Len(call.arg) = 3
    /\ Len(ret.value) = 2
    /\ \E i, j \in 1..Len(call.arg) :
          /\ i < j
          /\ _strip_locale(call.arg[i]) = _strip_locale(call.arg[j])
          /\ ~IsEnglish(call.arg[i])
          /\ IsEnglish(call.arg[j])
          /\ call.arg[j] \in Range(ret.value)

\* C21: a page is flagged soft-404 only if a homepage signature was captured
\* before the page was extracted and the page's URL differs from the
\* signature's: the homepage itself is never flagged.
C21_FlaggedOnlyAgainstSignature ==
    [][ \A i \in 1..Len(pages') :
          (i > Len(pages) /\ pages'[i].is_soft_404)
             => /\ homepage_signature.captured
                /\ normalize_url(pages'[i].url) # normalize_url(homepage_signature.url)
                /\ normalize_url(pages'[i].url) # normalize_url(base_url) ]_vars

\* with a signature captured the list holds the homepage, fetched again by the
\* loop and not flagged, and a flagged page of another URL
C21_Witness ==
    /\ homepage_signature.captured
    /\ [phase |-> "signature", ok |-> TRUE] \in fetch_log
    /\ \E i, j \in 1..Len(pages) :
          /\ normalize_url(pages[i].url) = normalize_url(base_url)
          /\ ~pages[i].is_soft_404
          /\ pages[j].is_soft_404

\* the pure call returned the record of a page that is not the homepage
ExtractedNonHome ==
    /\ call.fn = "_extract_metadata"
    /\ ret.done
    /\ normalize_url(call.arg.url) # normalize_url(base_url)

\* best_description as the page itself gives it, before the collision guard
OwnBestDescription ==
    BestDescription(call.arg.page,
                    Description(call.arg.page.meta_desc, call.arg.page.og_desc,
                                call.arg.page.first_p))

\* C22: a non-homepage page whose title and best description both exactly
\* match the homepage's and whose visible text is under 200 characters long
\* is flagged soft-404 by the extractor.
C22_StubFlagged ==
    ( /\ ExtractedNonHome
      /\ call.arg.page.title_same
      /\ OwnBestDescription # NoText
      /\ OwnBestDescription = call.arg.home_best
      /\ call.arg.page.vlen < 200 )
        => ret.value.is_soft_404

\* C23 as stated: for a non-homepage page extracted while the signature has a
\* non-empty best description, the record's best description is empty or its
\* normal form differs from the normal form of the homepage's.
C23_NoHomeDescription ==
    (ExtractedNonHome /\ call.arg.home_best # NoText)
        => \/ ret.value.best_description = NoText
           \/ _norm_desc(ret.value.best_description) # _norm_desc(call.arg.home_best)

\* C23 as amended: the same for a signature whose best description has a
\* non-empty normal form.
C23_NoHomeDescriptionNormal ==
    (ExtractedNonHome /\ _norm_desc(call.arg.home_best) # "")
        => \/ ret.value.best_description = NoText
           \/ _norm_desc(ret.value.best_description) # _norm_desc(call.arg.home_best)

\* the guard replaced a description that matched the homepage's up to case
\* and punctuation by the first structured line
C23_Witness ==
    /\ ExtractedNonHome
    /\ _norm_desc(call.arg.home_best) # ""
    /\ OwnBestDescription # call.arg.home_best
    /\ _norm_desc(OwnBestDescription) = _norm_desc(call.arg.home_best)
    /\ ret.value.best_description = call.arg.page.structured
    /\ ret.value.best_description # NoText

\* C28: the record's description is the meta description, overridden by the
\* Open-Graph description when both are present; only when neither exists is
\* it the text of the first paragraph, bounded to 200 characters.
C28_DescriptionOgOverrides ==
    (call.fn = "_extract_metadata" /\ ret.done)
        => LET p == call.arg.page
               description == ret.value.description
           IN /\ p.og_desc # NoText => description = p.og_desc
              /\ (p.og_desc = NoText /\ p.meta_desc # NoText) => description = p.meta_desc
              /\ (p.og_desc = NoText /\ p.meta_desc = NoText)
                    => /\ description.core = p.first_p.text.core
                       /\ description.len <= 200

\* the pure call of _dedupe_urls_by_locale returned
Deduped == call.fn = "_dedupe_urls_by_locale" /\ ret.done

\* the path of a URL after removing a first segment shaped as a locale token
PathSansLocale(url) ==
    IF url.segs # <<>> /\ Head(url.segs) \in LocaleShaped THEN Tail(url.segs) ELSE url.segs

\* C25: two input URLs whose paths are equal after removing a leading locale
\* segment (the site root and /<locale> included) are collapsed: the output
\* holds exactly one URL of that path.
C25_LocaleCollapsed ==
    Deduped =>
        \A x \in Range(call.arg) :
            Cardinality({ u \in Range(ret.value) :
                            PathSansLocale(u) = PathSansLocale(x) }) = 1

\* the first path segment of the URL is an en-prefixed locale token
EnglishFirst(url) == url.segs # <<>> /\ Head(url.segs) \in EnglishShaped

\* fewer path segments, then fewer characters
ShorterPath(x, y) ==
    \/ Len(x.segs) < Len(y.segs)
    \/ Len(x.segs) = Len(y.segs) /\ UrlLen(x) < UrlLen(y)

\* C26: in a locale group of more than one member the representative is a
\* shortest member among those whose first segment is an en-prefixed locale
\* token, and a shortest member of the whole group only if there is none.
C26_EnglishFirstShortest ==
    Deduped =>
        \A x \in Range(call.arg) :
            LET members == { u \in Range(call.arg) : _strip_locale(u) = _strip_locale(x) }
                english == { u \in members : EnglishFirst(u) }
                candidates == IF english # {} THEN english ELSE members
            IN Len(GroupMembers(call.arg, _strip_locale(x))) > 1
                  => \E r \in candidates :
                        /\ r \in Range(ret.value)
                        /\ \A m \in candidates : ~ShorterPath(m, r)

\* C27: both link classes produced for a fetched page hold no URL of a
\* resource file (.pdf, .jpeg, ...), the links mined from structured data included.
C27_NoResourceLinks ==
    (call.fn = "_crawl_page" /\ ret.done)
        => \A u \in Range(ret.value.nav) \cup Range(ret.value.other) : ~HasSkipPattern(u)

\* C29: in every state of a run no URL is both in a queue and in
\* visited_urls, queued_urls is exactly the set of the URLs held in the
\* queues, and the candidate the loop pops next has not been visited.
C29_QueuedNotVisited ==
    /\ \A s \in Slots : SlotUrl(s) \notin visited_urls
    /\ queued_urls = { SlotUrl(s) : s \in Slots }
    /\ (pc = "loop" /\ LoopCond) => NextUrl \notin visited_urls

\* a page was fetched and a URL still waits while the loop runs
C29_Witness ==
    /\ pc = "loop"
    /\ LoopCond
    /\ visited_urls # {}
    /\ \E s \in Slots : SlotUrl(s) \notin visited_urls

\* this step seeds the frontier of a run whose page budget is at least 1
StartsLoop == pc = "seed" /\ pc' = "loop" /\ max_pages >= 1

\* C30 as stated: when the depth loop starts with max_pages >= 1 the depth-0
\* nav queue holds at least one URL: the base URL is seeded if no sitemap URL is.
C30_FirstCandidate ==
    [][ StartsLoop => nav_queues'[0] # <<>> ]_vars

\* C30 as amended: when the depth loop starts with max_pages >= 1 and the
\* sitemap gave no URL, the depth-0 nav queue holds the normalized base URL
\* alone; when the sitemap gave URLs, the queue holds only sitemap URLs that
\* robots allows, possibly none: the base URL is not seeded in their place.
C30_SeededFromSitemapOrBase ==
    [][ StartsLoop =>
          IF sitemap'.urls = <<>>
          THEN nav_queues'[0] = <<normalize_url(base_url)>>
          ELSE \A u \in Range(nav_queues'[0]) :
                  /\ _can_fetch(u)
                  /\ u \in NormalizedSet(sitemap'.urls) ]_vars

\* the loop started without a candidate: the sitemap gave URLs, robots
\* disallows all of them, and the base URL was not seeded
C30_Witness ==
    /\ pc = "loop"
    /\ max_pages >= 1
    /\ visited_urls = {}
    /\ sitemap.urls # <<>>
    /\ nav_queues[0] = <<>>
    /\ \A u \in QueueUrls : hops[u] = NoHops

\* C24: the frontier state of a run is discarded when crawl() returns: a
\* second crawl() on the same crawler starts, once its queues are created,
\* with an empty visited set, empty section counts and empty defer counts.
C24_SecondRunFresh ==
    (runs = MaxRuns /\ pc = "seed")
        => /\ visited_urls = {}
           /\ \A k \in SectionKeys : section_counts[k] = 0
           /\ \A u \in QueueUrls : defer_counts[u] = 0

====
